---- MODULE Spec2Model ----
(***************************************************************************)
(* Model of src/main.py: the FastAPI service that crawls one website at    *)
(* startup, keeps the crawled {url -> text} mapping in app.state.site_data *)
(* and answers POST /ask by trimming a copy of that mapping under          *)
(* MAX_TEXT_LENGTH (_enforce_site_data_limit) and calling the LLM.         *)
(*                                                                         *)
(* A str is modelled by what len() and repr() need of it: the number of    *)
(* characters repr() prints as themselves and the number it prints as a    *)
(* two-character backslash escape (newline, tab, backslash, ...).  A dict  *)
(* is the sequence of its items in insertion order.  Dicts live in a heap  *)
(* (objs) and are held by reference, so that a copy and an alias differ.   *)
(***************************************************************************)
EXTENDS Integers, Sequences, FiniteSets, TLC

\* ------------------------------------------------------------------ bounds
MaxEntries == 3
MaxRequests == 2

\* --------------------------------------------------------------- constants
MAX_TEXT_LENGTH == 196000
MAX_QUESTION_LENGTH == 500

None == 0 - 1

VARIABLES
    phase,                      \* lifespan: "starting", "serving", "failed"
    crawls,                     \* number of completed crawl_site calls
    site_data,                  \* app.state.site_data: a reference, or None
    objs,                       \* the heap: reference -> dict
    pc,                         \* per request: position in its handler
    body,                       \* per request: the raw request body
    question,                   \* per request: local `question`
    site_data_with_data_limit,  \* per request: local of the enforcer (a reference)
    total_text_length,          \* per request: local of the enforcer
    items,                      \* per request: the sorted list the for loop walks
    idx,                        \* per request: position of the for loop in items
    evicted,                    \* per request: history of the entries deleted
    prompt,                     \* per request: the mapping put in the LLM prompt
    reply,                      \* per request: the reply the LLM gave it
    response                    \* per request: what the handler produced

vars == <<phase, crawls, site_data, objs, pc, body, question,
          site_data_with_data_limit, total_text_length, items, idx, evicted,
          prompt, reply, response>>

Requests == 1..MaxRequests

\* ------------------------------------------------------------------ strings
\* len(s)
StrLen(s) == s.plain + s.special

\* len(repr(s)): the quotes, each plain character once, each escaped one twice
ReprLen(s) == s.plain + 2 * s.special + 2

\* A URL is kept as the string it is (URLs are the keys, their identity
\* matters); it holds no character that repr() escapes.
Url(i) == "/page" \o ToString(i)

UrlReprLen(u) == Len(u) + 2

\* -------------------------------------------------------------------- dicts
Entry(u, t) == [url |-> u, text |-> t]

RECURSIVE SumSeq(_)
SumSeq(s) == IF s = <<>> THEN 0 ELSE Head(s) + SumSeq(Tail(s))

\* len(repr(key) + ": " + repr(value))
ItemReprLen(e) == UrlReprLen(e.url) + 2 + ReprLen(e.text)

\* len(str(d)): "{" + ", ".join(items) + "}"
DictStrLen(d) ==
    2 + SumSeq([i \in 1..Len(d) |-> ItemReprLen(d[i])])
      + (IF Len(d) = 0 THEN 0 ELSE 2 * (Len(d) - 1))

\* list(d.keys())
Keys(d) == [i \in 1..Len(d) |-> d[i].url]

\* del d[url]
DictDel(d, url) == SelectSeq(d, LAMBDA e : e.url # url)

\* (variant: an item goes before the items of equal key, ties are reversed)
RECURSIVE InsertDescTiesFirst(_, _)
InsertDescTiesFirst(e, s) ==
    IF s = <<>> THEN <<e>>
    ELSE IF StrLen(Head(s).text) > StrLen(e.text)
         THEN <<Head(s)>> \o InsertDescTiesFirst(e, Tail(s))
         ELSE <<e>> \o s

\* sorted(d.items(), key=lambda x: len(x[1]), reverse=True): a stable sort, so
\* items of equal key keep the order they have in d
RECURSIVE InsertDesc(_, _)
InsertDesc(e, s) ==
    IF s = <<>> THEN <<e>>
    ELSE IF StrLen(Head(s).text) >= StrLen(e.text)
         THEN <<Head(s)>> \o InsertDesc(e, Tail(s))
         ELSE <<e>> \o s

\* (variant: the items are walked in insertion order, unsorted)
UnsortedItems(d) == d

RECURSIVE SortedItems(_)
SortedItems(d) ==
    IF d = <<>> THEN <<>>
    ELSE InsertDesc(d[Len(d)], SortedItems(SubSeq(d, 1, Len(d) - 1)))

\* (variant: no copy is taken, the local is another name of the argument)
DictAliasRef(src, r) == src

\* site_data.copy(): a new dict object; request r's copy is object r
DictCopyRef(src, r) == r

\* --------------------------------------------------------------- the inputs
\* Page texts the crawl may produce: a short page with two newlines, a long
\* page that fits the limit alone, and a page of escaped characters whose
\* repr() is about twice its length.
TextPool ==
    { [plain |-> 10, special |-> 2],
      [plain |-> 195985, special |-> 0],
      [plain |-> 1000, special |-> 97500] }

\* The mappings crawl_site may return: up to MaxEntries pages, in crawl order.
Corpora ==
    UNION { { [i \in 1..n |-> Entry(Url(i), f[i])] : f \in [1..n -> TextPool] }
            : n \in 0..MaxEntries }

\* Request bodies: UTF-8 text of a given number of characters, or bytes that
\* are not UTF-8.
QuestionLengths == {0, MAX_QUESTION_LENGTH, MAX_QUESTION_LENGTH + 1}

Bodies ==
    { [utf8 |-> TRUE, chars |-> n] : n \in QuestionLengths }
        \cup { [utf8 |-> FALSE, chars |-> 0] }

NoBody == [utf8 |-> FALSE, chars |-> None]

\* What client.beta.chat.completions.parse may return: message.refusal and
\* message.content are a str or None, usage.to_dict() may lack a counter.
Replies ==
    { [refusal |-> "I cannot answer that", content |-> "None",
       usage |-> [prompt_tokens |-> 49000, completion_tokens |-> 12]],
      [refusal |-> "None", content |-> "an answer",
       usage |-> [prompt_tokens |-> 49000, completion_tokens |-> 40]],
      [refusal |-> "None", content |-> "an answer",
       usage |-> [prompt_tokens |-> None, completion_tokens |-> None]] }

NoReply == [refusal |-> "None", content |-> "None",
            usage |-> [prompt_tokens |-> None, completion_tokens |-> None]]

\* Python truth value of an Optional[str]
Truthy(x) == x \notin {"None", ""}

\* ---------------------------------------------------------------- responses
NoResponse == [status |-> 0]

HTTPException(code, detail) == [status |-> code, detail |-> detail]

\* an exception no handler catches: Starlette answers 500
ServerError == [status |-> 500, detail |-> "Internal Server Error"]

\* ------------------------------------------------------------------ startup
Init ==
    /\ phase = "starting"
    /\ crawls = 0
    /\ site_data = None
    /\ objs = <<>>
    /\ pc = [r \in Requests |-> "idle"]
    /\ body = [r \in Requests |-> NoBody]
    /\ question = [r \in Requests |-> None]
    /\ site_data_with_data_limit = [r \in Requests |-> None]
    /\ total_text_length = [r \in Requests |-> 0]
    /\ items = [r \in Requests |-> <<>>]
    /\ idx = [r \in Requests |-> 0]
    /\ evicted = [r \in Requests |-> <<>>]
    /\ prompt = [r \in Requests |-> <<>>]
    /\ reply = [r \in Requests |-> NoReply]
    /\ response = [r \in Requests |-> NoResponse]

requestVars == <<pc, body, question, site_data_with_data_limit,
                 total_text_length, items, idx, evicted, prompt, reply, response>>

\* (variant: crawl_site is started but not awaited, lifespan yields at once)
CrawlNotAwaited ==
    /\ phase = "starting"
    /\ phase' = "serving"
    /\ UNCHANGED <<crawls, site_data, objs>>
    /\ UNCHANGED requestVars

\* lifespan, line 19: crawl_site returns and its result is assigned
Crawl ==
    /\ phase = "starting"
    /\ \E corpus \in Corpora :
          /\ objs' = (0 :> corpus)
          /\ site_data' = 0
    /\ crawls' = crawls + 1
    /\ phase' = "serving"
    /\ UNCHANGED requestVars

\* (variant: the exception of crawl_site is caught and an empty corpus served)
CrawlFailsSwallowed ==
    /\ phase = "starting"
    /\ phase' = "serving"
    /\ objs' = (0 :> <<>>)
    /\ site_data' = 0
    /\ UNCHANGED crawls
    /\ UNCHANGED requestVars

\* lifespan, line 19: crawl_site raises; the exception leaves lifespan before
\* the yield, so startup fails and nothing is served
CrawlFails ==
    /\ phase = "starting"
    /\ phase' = "failed"
    /\ UNCHANGED <<crawls, site_data, objs>>
    /\ UNCHANGED requestVars

\* ----------------------------------------------------------- the event loop
\* The handlers are coroutines of one event loop: a handler that is between
\* two awaits that suspend holds the loop.  ask_question suspends only in
\* `await request.body()` (line 30): _enforce_site_data_limit awaits nothing
\* and client.beta.chat.completions.parse is a synchronous call.
Suspended == {"idle", "await_body", "done"}

EventLoopFree == \A r \in Requests : pc[r] \in Suspended

\* Requests are numbered in the order they arrive.
NextToArrive(r) ==
    /\ pc[r] = "idle"
    /\ \A q \in Requests : q < r => pc[q] # "idle"

\* The dicts still referenced once request r's locals are gone.
Collect(heap, r) ==
    [ref \in DOMAIN heap \ ({site_data_with_data_limit[r]} \ {site_data}) |-> heap[ref]]

\* The handler of request r ends with response resp; its locals are dropped.
Finish(r, resp) ==
    /\ response' = [response EXCEPT ![r] = resp]
    /\ pc' = [pc EXCEPT ![r] = "done"]
    /\ question' = [question EXCEPT ![r] = None]
    /\ site_data_with_data_limit' = [site_data_with_data_limit EXCEPT ![r] = None]
    /\ total_text_length' = [total_text_length EXCEPT ![r] = 0]
    /\ items' = [items EXCEPT ![r] = <<>>]
    /\ idx' = [idx EXCEPT ![r] = 0]
    /\ objs' = Collect(objs, r)
    /\ UNCHANGED reply

\* ------------------------------------------------------------- /source_info
\* get_source, lines 24-26: returns app.state.site_data itself
GetSource(r) ==
    /\ phase = "serving"
    /\ NextToArrive(r)
    /\ EventLoopFree
    /\ Finish(r, [status |-> 200, source_info |-> objs[site_data]])
    /\ UNCHANGED <<phase, crawls, site_data, body, evicted, prompt>>

\* --------------------------------------------------------------------- /ask
\* ask_question is entered and suspends in `await request.body()`, line 30
AskArrives(r) ==
    /\ phase = "serving"
    /\ NextToArrive(r)
    /\ EventLoopFree
    /\ \E b \in Bodies : body' = [body EXCEPT ![r] = b]
    /\ pc' = [pc EXCEPT ![r] = "await_body"]
    /\ UNCHANGED <<phase, crawls, site_data, objs, question,
                   site_data_with_data_limit, total_text_length, items, idx,
                   evicted, prompt, reply, response>>

\* line 30: the body has arrived and decodes as UTF-8
ReadBody(r) ==
    /\ pc[r] = "await_body"
    /\ EventLoopFree
    /\ body[r].utf8
    /\ question' = [question EXCEPT ![r] = body[r].chars]
    /\ pc' = [pc EXCEPT ![r] = "check_length"]
    /\ UNCHANGED <<phase, crawls, site_data, objs, body,
                   site_data_with_data_limit, total_text_length, items, idx,
                   evicted, prompt, reply, response>>

\* line 30: decode('utf-8') raises UnicodeDecodeError
ReadBodyFails(r) ==
    /\ pc[r] = "await_body"
    /\ EventLoopFree
    /\ ~body[r].utf8
    /\ Finish(r, ServerError)
    /\ UNCHANGED <<phase, crawls, site_data, body, evicted, prompt>>

\* (variant: the boundary itself is rejected)
TooLongOffByOne(q) == q >= MAX_QUESTION_LENGTH

\* line 31: len(question) > 500
TooLong(q) == q > MAX_QUESTION_LENGTH

\* lines 31-32: the question is too long
RejectQuestion(r) ==
    /\ pc[r] = "check_length"
    /\ TooLong(question[r])
    /\ Finish(r, HTTPException(400,
                 "Question exceeds maximum length of 500 characters"))
    /\ UNCHANGED <<phase, crawls, site_data, body, evicted, prompt>>

\* (variant: the length check does not stop the handler, line 34 runs anyway)
AcceptQuestionUnchecked(r) ==
    /\ pc[r] = "check_length"
    /\ pc' = [pc EXCEPT ![r] = "enforce"]
    /\ UNCHANGED <<phase, crawls, site_data, objs, body, question,
                   site_data_with_data_limit, total_text_length, items, idx,
                   evicted, prompt, reply, response>>

\* line 31: the question passes, line 34 calls the enforcer
AcceptQuestion(r) ==
    /\ pc[r] = "check_length"
    /\ ~TooLong(question[r])
    /\ pc' = [pc EXCEPT ![r] = "enforce"]
    /\ UNCHANGED <<phase, crawls, site_data, objs, body, question,
                   site_data_with_data_limit, total_text_length, items, idx,
                   evicted, prompt, reply, response>>

\* ------------------------------------------------- _enforce_site_data_limit
\* lines 80-81: copy the mapping, measure its string form
EnforceCopy(r) ==
    /\ pc[r] = "enforce"
    /\ LET ref == DictCopyRef(site_data, r)
       IN /\ objs' = (ref :> objs[site_data]) @@ objs
          /\ site_data_with_data_limit' =
                 [site_data_with_data_limit EXCEPT ![r] = ref]
          /\ total_text_length' =
                 [total_text_length EXCEPT ![r] = DictStrLen(objs[site_data])]
    /\ pc' = [pc EXCEPT ![r] = "limit_check"]
    /\ UNCHANGED <<phase, crawls, site_data, body, question, items, idx,
                   evicted, prompt, reply, response>>

\* line 82 and line 86: the tests on the running total
OverLimit(total) == total > MAX_TEXT_LENGTH

\* (variant: the comparison of line 86 turned round)
UnderLimitFlipped(total) == total >= MAX_TEXT_LENGTH

UnderLimit(total) == total <= MAX_TEXT_LENGTH

\* line 82 false, line 91: nothing to trim, the copy is returned
WithinLimit(r) ==
    /\ pc[r] = "limit_check"
    /\ ~OverLimit(total_text_length[r])
    /\ pc' = [pc EXCEPT ![r] = "call_llm"]
    /\ UNCHANGED <<phase, crawls, site_data, objs, body, question,
                   site_data_with_data_limit, total_text_length, items, idx,
                   evicted, prompt, reply, response>>

\* line 82 true, line 85: the items are sorted and the for loop starts
StartTruncating(r) ==
    /\ pc[r] = "limit_check"
    /\ OverLimit(total_text_length[r])
    /\ items' = [items EXCEPT ![r] = SortedItems(objs[site_data_with_data_limit[r]])]
    /\ idx' = [idx EXCEPT ![r] = 1]
    /\ pc' = [pc EXCEPT ![r] = "for_loop"]
    /\ UNCHANGED <<phase, crawls, site_data, objs, body, question,
                   site_data_with_data_limit, total_text_length, evicted,
                   prompt, reply, response>>

\* (variant: the whole item, key and separator included, is taken off)
DecrementItem(total, e) == total - (ItemReprLen(e) + 2)

\* line 89: the running total after the entry's text is taken off
Decrement(total, e) == total - StrLen(e.text)

\* lines 86-89: the total is still over the limit, the entry is deleted
LoopEvict(r) ==
    /\ pc[r] = "for_loop"
    /\ idx[r] <= Len(items[r])
    /\ ~UnderLimit(total_text_length[r])
    /\ LET e == items[r][idx[r]]
           ref == site_data_with_data_limit[r]
       IN /\ objs' = [objs EXCEPT ![ref] = DictDel(@, e.url)]
          /\ total_text_length' =
                 [total_text_length EXCEPT ![r] = Decrement(@, e)]
          /\ evicted' = [evicted EXCEPT ![r] = Append(@, e)]
    /\ idx' = [idx EXCEPT ![r] = @ + 1]
    /\ UNCHANGED <<phase, crawls, site_data, pc, body, question,
                   site_data_with_data_limit, items, prompt, reply, response>>

\* lines 86-87, 91: the total is at or under the limit, break and return
LoopBreak(r) ==
    /\ pc[r] = "for_loop"
    /\ idx[r] <= Len(items[r])
    /\ UnderLimit(total_text_length[r])
    /\ pc' = [pc EXCEPT ![r] = "call_llm"]
    /\ UNCHANGED <<phase, crawls, site_data, objs, body, question,
                   site_data_with_data_limit, total_text_length, items, idx,
                   evicted, prompt, reply, response>>

\* lines 85, 91: the sorted items are used up, return
LoopExhausted(r) ==
    /\ pc[r] = "for_loop"
    /\ idx[r] > Len(items[r])
    /\ pc' = [pc EXCEPT ![r] = "call_llm"]
    /\ UNCHANGED <<phase, crawls, site_data, objs, body, question,
                   site_data_with_data_limit, total_text_length, items, idx,
                   evicted, prompt, reply, response>>

\* line 34: the enforcer's result, bound once it has returned
site_data_for_open_ai(r) == site_data_with_data_limit[r]

\* ------------------------------------------------------------- the LLM call
\* lines 36-52: the prompt is built from str(site_data_for_open_ai) and the
\* question, and the synchronous call starts
CallLLM(r) ==
    /\ pc[r] = "call_llm"
    /\ prompt' = [prompt EXCEPT ![r] = objs[site_data_for_open_ai(r)]]
    /\ pc' = [pc EXCEPT ![r] = "llm_wait"]
    /\ UNCHANGED <<phase, crawls, site_data, objs, body, question,
                   site_data_with_data_limit, total_text_length, items, idx,
                   evicted, reply, response>>

\* line 36: the call returns a completion
LLMReturns(r) ==
    /\ pc[r] = "llm_wait"
    /\ \E rep \in Replies : reply' = [reply EXCEPT ![r] = rep]
    /\ pc' = [pc EXCEPT ![r] = "check_refusal"]
    /\ UNCHANGED <<phase, crawls, site_data, objs, body, question,
                   site_data_with_data_limit, total_text_length, items, idx,
                   evicted, prompt, response>>

\* (variant: the exception of the LLM call is caught and a success body with
\* no answer is returned)
LLMFailsSwallowed(r) ==
    /\ pc[r] = "llm_wait"
    /\ Finish(r, [status |-> 200,
                  user_question |-> question[r],
                  answer |-> "",
                  input_tokens |-> None,
                  output_tokens |-> None,
                  sources |-> Keys(objs[site_data_with_data_limit[r]])])
    /\ UNCHANGED <<phase, crawls, site_data, body, evicted, prompt>>

\* line 36: the call raises (API error, timeout); nothing catches it
LLMFails(r) ==
    /\ pc[r] = "llm_wait"
    /\ Finish(r, ServerError)
    /\ UNCHANGED <<phase, crawls, site_data, body, evicted, prompt>>

\* (variant: the test of line 55 negated)
RefusedNegated(rep) == ~Truthy(rep.refusal)

\* line 55: if answer.refusal
Refused(rep) == Truthy(rep.refusal)

\* lines 54-56: the model refused
Refuse(r) ==
    /\ pc[r] = "check_refusal"
    /\ Refused(reply[r])
    /\ Finish(r, HTTPException(400,
                 "The AI refused to answer the question based on the provided data."))
    /\ UNCHANGED <<phase, crawls, site_data, body, evicted, prompt>>

\* (variant: the keys of the full corpus are listed)
SourcesOfCorpus(r) == Keys(objs[site_data])

\* line 67: list(site_data_for_open_ai.keys())
Sources(r) == Keys(objs[site_data_for_open_ai(r)])

\* lines 58-69: the response body
AnswerBody(r) ==
    [status |-> 200,
     user_question |-> question[r],
     answer |-> reply[r].content,
     input_tokens |-> reply[r].usage.prompt_tokens,
     output_tokens |-> reply[r].usage.completion_tokens,
     sources |-> Sources(r)]

\* lines 55, 58-69: no refusal, the answer is returned
Respond(r) ==
    /\ pc[r] = "check_refusal"
    /\ ~Refused(reply[r])
    /\ Finish(r, AnswerBody(r))
    /\ UNCHANGED <<phase, crawls, site_data, body, evicted, prompt>>

\* ---------------------------------------------------------- specification
Next ==
    \/ Crawl
    \/ CrawlFails
    \/ \E r \in Requests :
          \/ GetSource(r)
          \/ AskArrives(r)
          \/ ReadBody(r)
          \/ ReadBodyFails(r)
          \/ RejectQuestion(r)
          \/ AcceptQuestion(r)
          \/ EnforceCopy(r)
          \/ WithinLimit(r)
          \/ StartTruncating(r)
          \/ LoopEvict(r)
          \/ LoopBreak(r)
          \/ LoopExhausted(r)
          \/ CallLLM(r)
          \/ LLMReturns(r)
          \/ LLMFails(r)
          \/ Refuse(r)
          \/ Respond(r)

Spec == Init /\ [][Next]_vars

TypeOK ==
    /\ phase \in {"starting", "serving", "failed"}
    /\ site_data \in {None, 0}
    /\ \A r \in Requests : pc[r] \in
          {"idle", "await_body", "check_length", "enforce", "limit_check",
           "for_loop", "call_llm", "llm_wait", "check_refusal", "done"}

\* =================================================================== claims
\* The mapping the crawl stored in app.state.site_data.
Corpus == objs[site_data]

\* The enforcer has returned to request r (line 34) and line 36 has not run.
Returned(r) == pc[r] = "call_llm"

\* The mapping the enforcer returned to request r.
Result(r) == objs[site_data_for_open_ai(r)]

\* The enforcer is running for request r, or has just returned.
Enforcing(r) == pc[r] \in {"limit_check", "for_loop", "call_llm"}

TextLens(s) == [i \in 1..Len(s) |-> StrLen(s[i].text)]

Range(s) == {s[i] : i \in 1..Len(s)}

\* C1: the mapping the enforcer returns has a string form of at most
\* MAX_TEXT_LENGTH characters (the measure of line 81), or it is empty.
C1_ResultFitsOrEmpty ==
    \A r \in Requests :
        Returned(r) =>
            \/ DictStrLen(Result(r)) <= MAX_TEXT_LENGTH
            \/ Result(r) = <<>>

\* C1 witness: an over-limit corpus was trimmed to a non-empty mapping that fits.
C1_Witness ==
    \E r \in Requests :
        /\ Returned(r)
        /\ DictStrLen(Corpus) > MAX_TEXT_LENGTH
        /\ evicted[r] # <<>>
        /\ Result(r) # <<>>
        /\ DictStrLen(Result(r)) <= MAX_TEXT_LENGTH

\* C2: for a corpus whose string form is within the limit the enforcer evicts
\* nothing: it returns the same items in the same order, in a dict object
\* that is not the corpus object itself.
C2_WithinLimitUnchangedCopy ==
    \A r \in Requests :
        (Returned(r) /\ DictStrLen(Corpus) <= MAX_TEXT_LENGTH) =>
            /\ Result(r) = Corpus
            /\ evicted[r] = <<>>
            /\ site_data_for_open_ai(r) # site_data

\* C2 witness: the enforcer returned for a non-empty corpus within the limit.
C2_Witness ==
    \E r \in Requests :
        /\ Returned(r)
        /\ Len(Corpus) >= 2
        /\ DictStrLen(Corpus) <= MAX_TEXT_LENGTH

\* C3: while the enforcer trims an over-limit corpus, every eviction removes
\* exactly one whole entry (the corpus is the evicted entries plus the ones
\* still in the copy), the evicted texts have non-increasing length, the first
\* evicted entry is a longest one of the corpus, and no retained text is
\* longer than an evicted one.
C3_EvictionOrder ==
    \A r \in Requests :
        (Enforcing(r) /\ evicted[r] # <<>>) =>
            LET ev == evicted[r]
                kept == objs[site_data_with_data_limit[r]]
            IN /\ DictStrLen(Corpus) > MAX_TEXT_LENGTH
               /\ Len(ev) + Len(kept) = Len(Corpus)
               /\ Range(ev) \cup Range(kept) = Range(Corpus)
               /\ Range(ev) \cap Range(kept) = {}
               /\ \A i, j \in 1..Len(ev) :
                     i < j => TextLens(ev)[i] >= TextLens(ev)[j]
               /\ \A e \in Range(Corpus) : StrLen(ev[1].text) >= StrLen(e.text)
               /\ \A e \in Range(ev), k \in Range(kept) :
                     StrLen(e.text) >= StrLen(k.text)

\* C3 witness: two entries of different length were evicted, the longest
\* first although it was not first in the corpus, and a shorter one is kept.
C3_Witness ==
    \E r \in Requests :
        /\ Returned(r)
        /\ Len(evicted[r]) = 2
        /\ StrLen(evicted[r][1].text) > StrLen(evicted[r][2].text)
        /\ evicted[r][1] # Corpus[1]
        /\ Len(Result(r)) = 1

Last(s) == s[Len(s)]

\* C4: when the enforcer returns the empty mapping for a non-empty corpus, the
\* mapping that holds only the last evicted (shortest) entry is over the
\* limit: the last entry is given up only if it does not fit alone.
C4_EmptiedOnlyIfNothingFits ==
    \A r \in Requests :
        (Returned(r) /\ Result(r) = <<>> /\ Corpus # <<>>) =>
            DictStrLen(<<Last(evicted[r])>>) > MAX_TEXT_LENGTH

\* Request r got as far as the LLM call of line 36.
CalledLLM(r) ==
    \/ pc[r] \in {"llm_wait", "check_refusal"}
    \/ pc[r] = "done" /\ body[r].utf8 /\ ~TooLong(body[r].chars)

\* C5: two runs of the enforcer on the same corpus evict the same entries in
\* the same order and return equal mappings (the runs are those of any two
\* requests, each on the shared corpus).
C5_Deterministic ==
    \A r1, r2 \in Requests :
        (CalledLLM(r1) /\ CalledLLM(r2)) =>
            /\ evicted[r1] = evicted[r2]
            /\ prompt[r1] = prompt[r2]

\* C5 witness: two requests both ran the enforcer and both evicted two entries.
C5_Witness ==
    \E r1, r2 \in Requests :
        /\ r1 # r2
        /\ CalledLLM(r1) /\ CalledLLM(r2)
        /\ Len(evicted[r1]) = 2 /\ Len(evicted[r2]) = 2
        /\ prompt[r1] # <<>>

\* Request r ended with the success body of lines 59-69.
Answered(r) ==
    pc[r] = "done" /\ response[r].status = 200 /\ "sources" \in DOMAIN response[r]

KeysAmong(s, t) == \A i \in 1..Len(s) : \E j \in 1..Len(t) : s[i] = t[j]

\* C6: in a success response of /ask, sources is the key sequence of the
\* trimmed mapping that was put in that request's prompt; its keys are keys
\* of the corpus, and all of them, in order, when nothing was evicted.
C6_SourcesAreThePromptKeys ==
    \A r \in Requests :
        Answered(r) =>
            /\ response[r].sources = Keys(prompt[r])
            /\ KeysAmong(response[r].sources, Keys(Corpus))
            /\ evicted[r] = <<>> => response[r].sources = Keys(Corpus)

\* C6 witness: a success response after an eviction, with fewer sources than
\* the corpus has keys.
C6_Witness ==
    \E r \in Requests :
        /\ Answered(r)
        /\ evicted[r] # <<>>
        /\ response[r].sources # <<>>
        /\ Len(response[r].sources) < Len(Corpus)

\* Request r was rejected by line 32.
RejectedTooLong(r) ==
    /\ pc[r] = "done"
    /\ response[r] = HTTPException(400,
                        "Question exceeds maximum length of 500 characters")

\* Request r is past the length check of line 31.
PastValidation(r) ==
    pc[r] \in {"enforce", "limit_check", "for_loop", "call_llm", "llm_wait",
               "check_refusal"}

\* C7: a question of exactly 500 characters passes the length check and is
\* never rejected as too long; a question of more than 500 characters never
\* passes it and ends with status 400 and a detail message, never a success.
C7_LengthBoundary ==
    \A r \in Requests :
        /\ (body[r].utf8 /\ body[r].chars = MAX_QUESTION_LENGTH) =>
               ~RejectedTooLong(r)
        /\ (body[r].utf8 /\ body[r].chars > MAX_QUESTION_LENGTH) =>
               /\ ~PastValidation(r)
               /\ pc[r] = "done" =>
                     /\ response[r].status = 400
                     /\ "detail" \in DOMAIN response[r]
                     /\ ~Answered(r)

\* C7 witness: a 500-character question was answered and a 501-character
\* question was rejected.
C7_Witness ==
    \E r1, r2 \in Requests :
        /\ body[r1].chars = MAX_QUESTION_LENGTH /\ Answered(r1)
        /\ body[r2].chars = MAX_QUESTION_LENGTH + 1 /\ RejectedTooLong(r2)

\* C8: a question passes validation only if it has 1 to 500 characters; an
\* empty body reaches neither the enforcer nor the LLM call.
C8_AcceptedOnlyOneTo500 ==
    \A r \in Requests :
        PastValidation(r) =>
            (question[r] >= 1 /\ question[r] <= MAX_QUESTION_LENGTH)

\* C9: a request whose LLM reply has the refusal set ends with status 400,
\* never with a success body.
C9_RefusalIs400 ==
    \A r \in Requests :
        Truthy(reply[r].refusal) =>
            /\ pc[r] \in {"check_refusal", "done"}
            /\ ~Answered(r)
            /\ pc[r] = "done" =>
                  /\ response[r].status = 400
                  /\ DOMAIN response[r] = {"status", "detail"}

\* C9 witness: a request ended after the LLM refused.
C9_Witness ==
    \E r \in Requests : pc[r] = "done" /\ Truthy(reply[r].refusal)

\* C10: once the crawl has stored the corpus, no step of any request changes
\* app.state.site_data or the mapping it refers to.
C10_CorpusNeverChanges ==
    [][phase = "serving" =>
          /\ phase' = "serving"
          /\ site_data' = site_data
          /\ objs'[site_data] = objs[site_data]]_vars

\* C10 witness: every way a request can end has happened (a success after
\* evictions among them) to requests served from a corpus of several entries.
C10_Witness ==
    /\ phase = "serving"
    /\ Len(Corpus) >= 2
    /\ \E r \in Requests : Answered(r) /\ Len(evicted[r]) >= 2
    /\ \E r \in Requests : pc[r] = "done" /\ response[r].status # 200

\* Request r has been taken up by a handler.
Begun(r) == pc[r] # "idle"

\* C11: the crawl completes at most once, the service is serving only after
\* exactly one crawl has completed and its result is bound to
\* app.state.site_data, and no request is taken up before that.
C11_CrawlOnceBeforeServing ==
    /\ crawls <= 1
    /\ phase = "serving" =>
          /\ crawls = 1
          /\ site_data # None
          /\ site_data \in DOMAIN objs
    /\ \A r \in Requests : Begun(r) => phase = "serving"

\* C11 witness: a /source_info request and an /ask request have both ended,
\* after the one crawl.
C11_Witness ==
    /\ crawls = 1
    /\ \E r \in Requests : pc[r] = "done" /\ "source_info" \in DOMAIN response[r]
    /\ \E r \in Requests : Answered(r)

\* A step of request q that the event loop could run now: a new request is
\* taken up, or a handler suspended in `await request.body()` goes on.
CanStep(q) ==
    \/ ENABLED GetSource(q)
    \/ ENABLED AskArrives(q)
    \/ ENABLED ReadBody(q)
    \/ ENABLED ReadBodyFails(q)

\* Request q is waiting for the event loop: it is the next to arrive, or its
\* handler is suspended on line 30.
Waiting(q) == NextToArrive(q) \/ pc[q] = "await_body"

\* C12: while a request waits for the LLM call to return, every other request
\* that is arriving or suspended can take its next step.
C12_LLMWaitDoesNotBlock ==
    \A r, q \in Requests :
        (pc[r] = "llm_wait" /\ q # r /\ Waiting(q)) => CanStep(q)

\* lines 85-89 as a function: the for loop over the sorted items `its`, on
\* the copy d with running total `total`
RECURSIVE EvictLoop(_, _, _)
EvictLoop(d, its, total) ==
    IF its = <<>> \/ UnderLimit(total) THEN d
    ELSE EvictLoop(DictDel(d, Head(its).url), Tail(its),
                   Decrement(total, Head(its)))

\* lines 79-91 as a function: what one call of the enforcer returns for d
EnforceAlone(d) ==
    IF OverLimit(DictStrLen(d))
    THEN EvictLoop(d, SortedItems(d), DictStrLen(d))
    ELSE d

\* C13: whatever other requests are in flight or have run, the trimmed
\* mapping a request gets (and so its sources) is what one call of the
\* enforcer on the shared corpus returns; no request sees another's evictions.
C13_RequestsIsolated ==
    \A r \in Requests :
        /\ Returned(r) => Result(r) = EnforceAlone(Corpus)
        /\ CalledLLM(r) => prompt[r] = EnforceAlone(Corpus)
        /\ Answered(r) => response[r].sources = Keys(EnforceAlone(Corpus))
        /\ site_data_with_data_limit[r] # None =>
             /\ site_data_with_data_limit[r] # site_data
             /\ \A q \in Requests \ {r} :
                   site_data_with_data_limit[r] # site_data_with_data_limit[q]
        /\ \A q \in Requests \ {r} :
             (CalledLLM(r) /\ CalledLLM(q)) =>
                 Range(evicted[q]) \subseteq Range(prompt[r]) \cup Range(evicted[r])

\* C13 witness: request r gets a trimmed, non-empty mapping after request q,
\* which arrived later and overtook it, has evicted entries, called the LLM
\* and ended.
C13_Witness ==
    \E r, q \in Requests :
        /\ r # q
        /\ Returned(r) /\ evicted[r] # <<>> /\ Result(r) # <<>>
        /\ r < q
        /\ pc[q] = "done" /\ CalledLLM(q) /\ evicted[q] # <<>>

\* C14: when the crawl has failed, startup has failed for good: no further
\* step is possible, no corpus is bound and no request was or is taken up;
\* and without a completed crawl the service is never serving.
C14_FailedCrawlNeverServes ==
    /\ phase = "failed" =>
          /\ crawls = 0
          /\ site_data = None
          /\ objs = <<>>
          /\ \A r \in Requests : ~Begun(r) /\ response[r] = NoResponse
          /\ ~ENABLED Next
    /\ crawls = 0 =>
          /\ phase # "serving"
          /\ \A r \in Requests : ~Begun(r)

\* C14 witness: the crawl has failed.
C14_Witness == phase = "failed" /\ crawls = 0

\* The state of request q, local and recorded.
RequestState(q) ==
    <<pc[q], body[q], question[q], site_data_with_data_limit[q],
      total_text_length[q], items[q], idx[q], evicted[q], prompt[q],
      reply[q], response[q]>>

\* C15: the step in which the LLM call of request r raises ends r with the
\* server error (status 500, no success body), drops r's locals and its
\* trimmed copy, leaves the shared corpus as it was and touches no other
\* request; after it the event loop is free for the others.
C15_LLMFailureIsClean ==
    [][\A r \in Requests :
          (pc[r] = "llm_wait" /\ pc'[r] = "done") =>
              /\ response'[r] = ServerError
              /\ response'[r].status = 500
              /\ "sources" \notin DOMAIN response'[r]
              /\ question'[r] = None
              /\ site_data_with_data_limit'[r] = None
              /\ items'[r] = <<>>
              /\ DOMAIN objs' = {site_data}
              /\ site_data' = site_data
              /\ objs'[site_data] = objs[site_data]
              /\ phase' = phase
              /\ \A q \in Requests \ {r} : RequestState(q)' = RequestState(q)
              /\ \A q \in Requests : pc'[q] \in Suspended]_vars

\* Request r ended because its LLM call raised.
LLMFailed(r) ==
    pc[r] = "done" /\ CalledLLM(r) /\ reply[r] = NoReply

\* C15 witness: one request's LLM call raised after evictions, and another
\* request, served after it, was answered from the trimmed corpus.
C15_Witness ==
    \E r, q \in Requests :
        /\ r < q
        /\ LLMFailed(r) /\ evicted[r] # <<>> /\ response[r].status = 500
        /\ Answered(q) /\ evicted[q] = evicted[r]
        /\ response[q].sources = Keys(EnforceAlone(Corpus))
        /\ response[q].sources # <<>>

\* The order of the steps of ask_question: validate (line 31), enforce
\* (lines 34, 79-91), LLM call (line 36), refusal check (line 55), response.
StepOrder ==
    { <<"idle", "await_body">>, <<"idle", "done">>,
      <<"await_body", "check_length">>, <<"await_body", "done">>,
      <<"check_length", "enforce">>, <<"check_length", "done">>,
      <<"enforce", "limit_check">>,
      <<"limit_check", "for_loop">>, <<"limit_check", "call_llm">>,
      <<"for_loop", "call_llm">>,
      <<"call_llm", "llm_wait">>,
      <<"llm_wait", "check_refusal">>, <<"llm_wait", "done">>,
      <<"check_refusal", "done">> }

\* C16: a request moves through validate, enforce, LLM call, refusal check
\* and response in that order; a question that is too long goes from the
\* check straight to its rejection, with no enforcer run and no LLM call; the
\* enforcer starts only for a question that passed; a success body is built
\* only from the refusal check, with an LLM reply that carries no refusal.
C16_PipelineOrder ==
    [][\A r \in Requests :
          pc'[r] # pc[r] =>
              /\ <<pc[r], pc'[r]>> \in StepOrder
              /\ (pc[r] = "check_length" /\ TooLong(question[r])) =>
                    /\ pc'[r] = "done"
                    /\ response'[r].status = 400
                    /\ evicted'[r] = <<>>
                    /\ prompt'[r] = prompt[r]
                    /\ reply'[r] = NoReply
                    /\ objs' = objs
              /\ pc'[r] = "enforce" => ~TooLong(question[r])
              /\ (pc'[r] = "done" /\ "sources" \in DOMAIN response'[r]) =>
                    /\ pc[r] = "check_refusal"
                    /\ reply[r] \in Replies
                    /\ ~Truthy(reply[r].refusal)
                    /\ response'[r].answer = reply[r].content]_vars

\* C16 witness: over a corpus that needs trimming, one request was rejected
\* by the length check with nothing evicted for it, and another went through
\* the whole pipeline, evictions included, to a success body.
C16_Witness ==
    \E r, q \in Requests :
        /\ phase = "serving"
        /\ OverLimit(DictStrLen(Corpus))
        /\ RejectedTooLong(r) /\ evicted[r] = <<>> /\ reply[r] = NoReply
        /\ Answered(q) /\ evicted[q] # <<>> /\ prompt[q] # <<>>

\* The running totals before each step of the loop over the sorted items
\* `its`, from `total` on: element k is the total after k - 1 evictions.
RECURSIVE Totals(_, _)
Totals(its, total) ==
    IF its = <<>> THEN <<total>>
    ELSE <<total>> \o Totals(Tail(its), total - StrLen(Head(its).text))

\* C17: the running total starts as len(str(corpus)); after k evictions it is
\* that less the text lengths of the k evicted entries; the evicted entries
\* are the first k of the length-descending order, each evicted at a total
\* over the limit; and when the enforcer returns after evictions, the total
\* is at or under the limit or the whole corpus is evicted.
C17_RunningTotal ==
    \A r \in Requests :
        Enforcing(r) =>
            LET ev == evicted[r]
                k == Len(ev)
                sorted == SortedItems(Corpus)
                tot == Totals(sorted, DictStrLen(Corpus))
            IN /\ total_text_length[r] = DictStrLen(Corpus) - SumSeq(TextLens(ev))
               /\ total_text_length[r] = tot[k + 1]
               /\ ev = SubSeq(sorted, 1, k)
               /\ \A i \in 1..k : tot[i] > MAX_TEXT_LENGTH
               /\ Returned(r) =>
                     \/ total_text_length[r] <= MAX_TEXT_LENGTH
                     \/ k = Len(Corpus)

\* C17 witness: the enforcer returned after two evictions, the total then at
\* or under the limit with an entry left, the total before the second
\* eviction still over it.
C17_Witness ==
    \E r \in Requests :
        /\ Returned(r)
        /\ Len(evicted[r]) = 2
        /\ Len(Result(r)) >= 1
        /\ total_text_length[r] <= MAX_TEXT_LENGTH
        /\ total_text_length[r] + StrLen(evicted[r][2].text) > MAX_TEXT_LENGTH

\* The dict the enforcer of request r is working on.
WorkingCopy(r) == objs[site_data_with_data_limit[r]]

\* C18: while the enforcer runs, the running total is never below the true
\* len(str(...)) of the working copy: equal to it before the first eviction,
\* strictly above it after any eviction; so when the enforcer returns, the
\* true size of what it returns is at or under the limit.
C18_TotalBoundsTrueSize ==
    \A r \in Requests :
        Enforcing(r) =>
            /\ total_text_length[r] >= DictStrLen(WorkingCopy(r))
            /\ evicted[r] = <<>> =>
                  total_text_length[r] = DictStrLen(WorkingCopy(r))
            /\ evicted[r] # <<>> =>
                  total_text_length[r] > DictStrLen(WorkingCopy(r))
            /\ Returned(r) => DictStrLen(WorkingCopy(r)) <= MAX_TEXT_LENGTH

\* C18 witness: in the loop, after an eviction, the working copy already fits
\* the limit and is not empty, yet the total is over the limit and the next
\* entry is about to be evicted.
C18_Witness ==
    \E r \in Requests :
        /\ pc[r] = "for_loop"
        /\ evicted[r] # <<>>
        /\ WorkingCopy(r) # <<>>
        /\ DictStrLen(WorkingCopy(r)) <= MAX_TEXT_LENGTH
        /\ total_text_length[r] > MAX_TEXT_LENGTH
        /\ ENABLED LoopEvict(r)

\* The position of entry e in the sequence s.
IndexOf(e, s) == CHOOSE i \in 1..Len(s) : s[i] = e

\* C19: entries of equal text length are evicted in the order they have in
\* the corpus, earliest first (an entry is never evicted while an equally
\* long one that precedes it is kept), and the entries kept are in the order
\* they have in the corpus.
C19_TiesInInsertionOrder ==
    \A r \in Requests :
        Enforcing(r) =>
            LET ev == evicted[r]
                kept == WorkingCopy(r)
            IN /\ \A i, j \in 1..Len(ev) :
                     (i < j /\ StrLen(ev[i].text) = StrLen(ev[j].text)) =>
                         IndexOf(ev[i], Corpus) < IndexOf(ev[j], Corpus)
               /\ \A e \in Range(ev), k \in Range(kept) :
                     StrLen(e.text) = StrLen(k.text) =>
                         IndexOf(e, Corpus) < IndexOf(k, Corpus)
               /\ kept = SelectSeq(Corpus, LAMBDA e : e \notin Range(ev))

\* C19 witness: in the loop, of three entries with two equally long ones the
\* earlier of the two has just been evicted and the later is still there,
\* next to a shorter entry that precedes both in the corpus.
C19_Witness ==
    \E r \in Requests :
        /\ pc[r] = "for_loop"
        /\ Len(evicted[r]) = 1
        /\ Len(WorkingCopy(r)) = 2
        /\ StrLen(WorkingCopy(r)[2].text) = StrLen(evicted[r][1].text)
        /\ StrLen(WorkingCopy(r)[1].text) < StrLen(evicted[r][1].text)

====
